---- MODULE Spec2Model ----
(***************************************************************************)
(* A model of the blog content pipeline                                    *)
(* (src/automated_blog_content_pipeline): BlogPipeline.run drives a stage  *)
(* graph research -> outline -> write -> critique -> {write | optimize}    *)
(* -> publish -> END over one mutable state dict.                          *)
(*                                                                         *)
(* The state dict is modelled as a TLA+ function whose DOMAIN is the set   *)
(* of keys present, so that state["k"] on a missing key is a KeyError as   *)
(* in Python.  Every stage node is an operator from the dict (and the      *)
(* collaborators' outcomes) to the resulting dict and a "raised" flag.     *)
(***************************************************************************)
EXTENDS Integers, Sequences, FiniteSets, TLC

\* ---------------------------------------------------------------- bounds
\* largest MAX_WRITING_ITERATIONS value tried (config.py reads any int)
MaxIterationsCfg == 2
\* largest number of documents the retrieval collaborator returns
MaxDocs == 2
\* cap on write executions, only to keep a looping variant finite
MaxWrites == MaxIterationsCfg + 3
\* largest number of words a video topic tried is made of
MaxWords == 2

\* relevance scores in tenths (a float score s is modelled as 10*s)
Scores == {-5, 30}
\* titles of the topics tried (shorter than 20 characters)
Titles == {"X"}
\* values tried for PUBLISH_MODE (any string can be set in the environment)
PublishModes == {"draft", "publish", "private"}

\* FACT_CONFIDENCE_THRESHOLD default 0.8, in fiftieths (0.8 = 40/50)
fact_confidence_threshold == 40

\* ---------------------------------------------------------------- dict helpers
Has(st, k) == k \in DOMAIN st
Put(st, k, v) == (k :> v) @@ st
\* del state[k]
Remove(st, k) == [x \in DOMAIN st \ {k} |-> st[x]]

\* variant: the entry replaces the list instead of being appended to it
AppendError_overwrite(st, e) == Put(st, "errors", <<e>>)

\* state["errors"].append(e)
AppendError(st, e) == Put(st, "errors", Append(st["errors"], e))

RECURSIVE SumSeq(_)
SumSeq(s) == IF s = <<>> THEN 0 ELSE Head(s) + SumSeq(Tail(s))

RECURSIVE Count(_, _)
Count(s, x) ==
  IF s = <<>> THEN 0
  ELSE (IF Head(s) = x THEN 1 ELSE 0) + Count(Tail(s), x)

RECURSIVE SeqsUpTo(_, _)
SeqsUpTo(S, n) ==
  IF n = 0 THEN {<<>>}
  ELSE LET shorter == SeqsUpTo(S, n - 1)
       IN shorter \cup {Append(s, x) : s \in {t \in shorter : Len(t) = n - 1}, x \in S}

IsPrefix(s, t) == Len(s) <= Len(t) /\ SubSeq(t, 1, Len(s)) = s

Min(a, b) == IF a <= b THEN a ELSE b

VARIABLES
  settings,       \* the Settings object read once at start
  state,          \* the state dict: run() builds it as initial_state, hands
                  \* it to graph.invoke, and the nodes update it in place
  pc,             \* the next node of the graph, or run()'s position
  result,         \* what run() returned (NoResult before it returns)
  executed,       \* history: the stages started so far, in order
  decisions,      \* history: the gate's evaluations so far
  publishCalls,   \* history: the calls made to the publish collaborator
  collab,         \* history: what the collaborators did so far
  stageErrors,    \* history: the error entries the stages appended, in order
  outcomes,       \* history: how each stage of executed ended: "ok", "failed"
                  \* (its except branch ran) or "raised" (an exception left it)
  app,            \* the process around the pipeline: main()'s position, the
                  \* OPENAI_API_KEY setting, the RAGSystem and its vector store
  video           \* the video pipeline: the VideoState dict of app.invoke,
                  \* the graph's position, how far each branch has got and
                  \* which branch has written which field

vars == <<settings, state, pc, result, executed, decisions, publishCalls,
          collab, stageErrors, outcomes, app, video>>

\* the variables of the blog pipeline and of its main()
blogVars == <<settings, state, pc, result, executed, decisions, publishCalls,
              collab, stageErrors, outcomes, app>>

\* the video pipeline is not running
VideoOff == [pc |-> "off", state |-> <<>>, long |-> 0, short |-> 0, writers |-> {}]

\* result before run() has returned
NoResult == [none |-> TRUE]

\* ---------------------------------------------------------------- run(): initial state
\* run(), lines 246-251: the dict handed to graph.invoke
InitialState(title) ==
  [topic |-> [title |-> title],
   current_stage |-> "initialized",
   iteration_count |-> 0,
   errors |-> <<>>]

\* ---------------------------------------------------------------- retrieval
\* variant: the similarity search is not wrapped in try/except
retrieve_with_scores_notry(vector_store, search_raises, found) ==
  IF ~vector_store THEN [raised |-> FALSE, docs |-> <<>>]
  ELSE IF search_raises THEN [raised |-> TRUE, docs |-> <<>>]
  ELSE [raised |-> FALSE, docs |-> found]

\* RAGSystem.retrieve_with_scores: vector_store tells whether self.vector_store
\* is set; search_raises and found are what similarity_search_with_score does
retrieve_with_scores(vector_store, search_raises, found) ==
  IF ~vector_store THEN [raised |-> FALSE, docs |-> <<>>]
  ELSE IF search_raises THEN [raised |-> FALSE, docs |-> <<>>]
  ELSE [raised |-> FALSE, docs |-> found]

\* ---------------------------------------------------------------- research
\* variant: no early return for an empty retrieval; the average over no
\* sources then divides by zero
ResearchAgent_research_noguard(docs, facts) ==
  IF docs = <<>> \/ Min(50, SumSeq(docs)) < 0 \/ facts = "bad_facts"
  THEN [raised |-> TRUE,
        ctx |-> [sources |-> <<>>, key_facts |-> <<>>, confidence_score |-> 0]]
  ELSE [raised |-> FALSE,
        ctx |-> [sources |-> docs,
                 key_facts |-> IF facts = "some" THEN <<"fact">> ELSE <<>>,
                 confidence_score |-> Min(50, SumSeq(docs))]]

\* ResearchAgent.research: docs is the list retrieve_with_scores returned,
\* given by its scores; facts is the outcome of the fact-extraction chain.
\* confidence = min(1.0, avg_score * len(sources) / 5) = min(1.0, sum/5);
\* in fiftieths, with scores in tenths, that is min(50, sum of the scores).
\* ResearchContext validates confidence_score >= 0.0 and raises otherwise.
\* facts: "some" (the chain answered {"facts": [strings]}), "none" (it
\* answered without facts), "raise" (the chain or result.get raised: the
\* model call failed, the answer was no JSON or no JSON object) or
\* "bad_facts" (the answer's "facts" is not a list of strings, e.g. null or a
\* list of objects: result.get passes it on and ResearchContext, built
\* outside the try block, rejects it with a ValidationError)
ResearchAgent_research(docs, facts) ==
  IF docs = <<>>
  THEN [raised |-> FALSE,
        ctx |-> [sources |-> <<>>, key_facts |-> <<>>, confidence_score |-> 0]]
  ELSE LET key_facts == IF facts = "some" THEN <<"fact">> ELSE <<>>
           confidence == Min(50, SumSeq(docs))
       IN IF confidence < 0 \/ facts = "bad_facts"
          THEN [raised |-> TRUE,
                ctx |-> [sources |-> <<>>, key_facts |-> <<>>, confidence_score |-> 0]]
          ELSE [raised |-> FALSE,
                ctx |-> [sources |-> docs, key_facts |-> key_facts,
                         confidence_score |-> confidence]]

\* variant: a low confidence is only logged
research_node_silent(st, docs, facts) ==
  LET st1 == Put(st, "current_stage", "research")
      r == ResearchAgent_research(docs, facts)
  IN IF r.raised
     THEN [st |-> AppendError(st1, "Research error"), raised |-> FALSE,
           failed |-> TRUE]
     ELSE [st |-> Put(st1, "research_context", r.ctx), raised |-> FALSE,
           failed |-> FALSE]

\* what the fact-extraction chain of ResearchAgent.research can do
FactsOutcomes == {"some", "none", "raise", "bad_facts"}

research_node(st, docs, facts) ==
  LET st1 == Put(st, "current_stage", "research")
      r == ResearchAgent_research(docs, facts)
  IN IF r.raised
     THEN [st |-> AppendError(st1, "Research error"), raised |-> FALSE,
           failed |-> TRUE]
     ELSE LET st2 == Put(st1, "research_context", r.ctx)
          IN IF r.ctx.confidence_score < fact_confidence_threshold
             THEN [st |-> AppendError(st2, "Research confidence below threshold"),
                   raised |-> FALSE, failed |-> FALSE]
             ELSE [st |-> st2, raised |-> FALSE, failed |-> FALSE]

\* ---------------------------------------------------------------- outline
\* variant: current_stage is set inside the try block, after the outline
outline_node_late_stage(st, llm) ==
  IF ~Has(st, "research_context") \/ llm = "raise"
  THEN [st |-> AppendError(st, "Outline error"), raised |-> FALSE, failed |-> TRUE]
  ELSE [st |-> Put(Put(st, "outline", [title |-> st["topic"].title]),
                   "current_stage", "outline"),
        raised |-> FALSE, failed |-> FALSE]

\* variant: the research context is read with state.get and may be missing
outline_node_no_research(st, llm) ==
  LET st1 == Put(st, "current_stage", "outline")
  IN IF llm = "raise"
     THEN [st |-> AppendError(st1, "Outline error"), raised |-> FALSE,
           failed |-> TRUE]
     ELSE [st |-> Put(st1, "outline", [title |-> st1["topic"].title]),
           raised |-> FALSE, failed |-> FALSE]

\* llm is the outcome of OutlineAgent.generate_outline: "ok" or "raise"
outline_node(st, llm) ==
  LET st1 == Put(st, "current_stage", "outline")
  IN IF ~Has(st1, "research_context") \/ llm = "raise"
     THEN [st |-> AppendError(st1, "Outline error"), raised |-> FALSE,
           failed |-> TRUE]
     ELSE [st |-> Put(st1, "outline", [title |-> st1["topic"].title]),
           raised |-> FALSE, failed |-> FALSE]

\* ---------------------------------------------------------------- write
\* variant: the counter is incremented inside the try block, after the draft
write_node_count_on_success(st, llm) ==
  LET st1 == Put(st, "current_stage", "write")
      old == IF Has(st1, "iteration_count") THEN st1["iteration_count"] ELSE 0
  IN IF ~Has(st1, "outline") \/ ~Has(st1, "research_context") \/ llm = "raise"
     THEN [st |-> AppendError(st1, "Write error"), raised |-> FALSE,
           failed |-> TRUE]
     ELSE [st |-> Put(Put(st1, "iteration_count", old + 1), "draft_content",
                      [title |-> st1["outline"].title, version |-> old + 1]),
           raised |-> FALSE, failed |-> FALSE]

\* variant: a failed write drops the draft of the earlier pass
write_node_clear(st, llm) ==
  LET st1 == Put(st, "current_stage", "write")
      old == IF Has(st1, "iteration_count") THEN st1["iteration_count"] ELSE 0
      st2 == Put(st1, "iteration_count", old + 1)
  IN IF ~Has(st2, "outline") \/ ~Has(st2, "research_context") \/ llm = "raise"
     THEN [st |-> AppendError(Remove(st2, "draft_content"), "Write error"),
           raised |-> FALSE, failed |-> TRUE]
     ELSE [st |-> Put(st2, "draft_content",
                      [title |-> st2["outline"].title, version |-> old + 1]),
           raised |-> FALSE, failed |-> FALSE]

\* llm is the outcome of WriterAgent.write_content: "ok" or "raise"
write_node(st, llm) ==
  LET st1 == Put(st, "current_stage", "write")
      old == IF Has(st1, "iteration_count") THEN st1["iteration_count"] ELSE 0
      st2 == Put(st1, "iteration_count", old + 1)
  IN IF ~Has(st2, "outline") \/ ~Has(st2, "research_context") \/ llm = "raise"
     THEN [st |-> AppendError(st2, "Write error"), raised |-> FALSE,
           failed |-> TRUE]
     ELSE [st |-> Put(st2, "draft_content",
                      [title |-> st2["outline"].title, version |-> old + 1]),
           raised |-> FALSE, failed |-> FALSE]

\* ---------------------------------------------------------------- critique
\* variant: a rejecting QA result is also recorded in the error list
critique_node_error_on_reject(st, review) ==
  LET st1 == Put(st, "current_stage", "critique")
  IN IF ~Has(st1, "draft_content") \/ ~Has(st1, "research_context") \/ review = "raise"
     THEN [st |-> AppendError(st1, "Critique error"), raised |-> FALSE,
           failed |-> TRUE]
     ELSE LET st2 == Put(st1, "qa_result",
                         [approved |-> (review = "approved"),
                          of_version |-> st1["draft_content"].version,
                          pass |-> st1["iteration_count"]])
          IN [st |-> IF review = "approved" THEN st2
                     ELSE AppendError(st2, "Critique error"),
              raised |-> FALSE, failed |-> FALSE]

\* variant: a failed critique records a rejecting QA result
critique_node_reject_on_fail(st, review) ==
  LET st1 == Put(st, "current_stage", "critique")
  IN IF ~Has(st1, "draft_content") \/ ~Has(st1, "research_context") \/ review = "raise"
     THEN [st |-> Put(AppendError(st1, "Critique error"), "qa_result",
                      [approved |-> FALSE, of_version |-> 0,
                       pass |-> st1["iteration_count"]]),
           raised |-> FALSE, failed |-> TRUE]
     ELSE [st |-> Put(st1, "qa_result",
                      [approved |-> (review = "approved"),
                       of_version |-> st1["draft_content"].version,
                       pass |-> st1["iteration_count"]]),
           raised |-> FALSE, failed |-> FALSE]

\* review is the outcome of CriticAgent.review: "approved", "rejected" or "raise"
critique_node(st, review) ==
  LET st1 == Put(st, "current_stage", "critique")
  IN IF ~Has(st1, "draft_content") \/ ~Has(st1, "research_context") \/ review = "raise"
     THEN [st |-> AppendError(st1, "Critique error"), raised |-> FALSE,
           failed |-> TRUE]
     ELSE [st |-> Put(st1, "qa_result",
                      [approved |-> (review = "approved"),
                       of_version |-> st1["draft_content"].version,
                       pass |-> st1["iteration_count"]]),
           raised |-> FALSE, failed |-> FALSE]

\* ---------------------------------------------------------------- revision gate
\* variant: the iteration limit is compared with > instead of >=
should_revise_late(st) ==
  IF ~Has(st, "qa_result") THEN "KeyError"
  ELSE IF st["qa_result"].approved THEN "optimize"
  ELSE IF st["iteration_count"] > settings.max_writing_iterations THEN "optimize"
  ELSE "revise"

\* variant: no iteration limit, a rejected draft is always revised
should_revise_unbounded(st) ==
  IF ~Has(st, "qa_result") THEN "KeyError"
  ELSE IF st["qa_result"].approved THEN "optimize"
  ELSE "revise"

\* variant: a run that has recorded errors is passed on without revision
should_revise_on_errors(st) ==
  IF ~Has(st, "qa_result") THEN "KeyError"
  ELSE LET iteration == IF Has(st, "iteration_count") THEN st["iteration_count"] ELSE 0
       IN IF st["qa_result"].approved THEN "optimize"
          ELSE IF iteration >= settings.max_writing_iterations THEN "optimize"
          ELSE IF Has(st, "errors") /\ st["errors"] # <<>> THEN "optimize"
          ELSE "revise"

\* _should_revise; state["qa_result"] on a dict without that key is a KeyError
should_revise(st) ==
  IF ~Has(st, "qa_result") THEN "KeyError"
  ELSE LET iteration == IF Has(st, "iteration_count") THEN st["iteration_count"] ELSE 0
       IN IF st["qa_result"].approved THEN "optimize"
          ELSE IF iteration >= settings.max_writing_iterations THEN "optimize"
          ELSE "revise"

\* ---------------------------------------------------------------- optimize
\* SEOAgent.optimize returns its argument
SEOAgent_optimize(content) == content

\* variant: the handler records the error without copying the draft
optimize_node_no_fallback(st, seo) ==
  LET st1 == Put(st, "current_stage", "optimize")
  IN IF ~Has(st1, "draft_content")
     THEN [st |-> AppendError(st1, "Optimize error"), raised |-> TRUE,
           failed |-> TRUE]
     ELSE IF seo = "raise"
     THEN [st |-> AppendError(st1, "Optimize error"), raised |-> FALSE,
           failed |-> TRUE]
     ELSE [st |-> Put(st1, "final_content", SEOAgent_optimize(st1["draft_content"])),
           raised |-> FALSE, failed |-> FALSE]

\* seo is the outcome of the try block's calls: "ok" or "raise".  On an
\* error the handler copies the draft; without a draft the try block raises
\* KeyError, and the handler's own state["draft_content"] raises it again,
\* out of the node
optimize_node(st, seo) ==
  LET st1 == Put(st, "current_stage", "optimize")
  IN IF ~Has(st1, "draft_content")
     THEN [st |-> AppendError(st1, "Optimize error"), raised |-> TRUE,
           failed |-> TRUE]
     ELSE IF seo = "raise"
     THEN [st |-> Put(AppendError(st1, "Optimize error"), "final_content",
                      st1["draft_content"]),
           raised |-> FALSE, failed |-> TRUE]
     ELSE [st |-> Put(st1, "final_content", SEOAgent_optimize(st1["draft_content"])),
           raised |-> FALSE, failed |-> FALSE]

\* ---------------------------------------------------------------- publishers
\* Python's None for the optional fields of PublishResult
None == "None"

PublishResult(success, post_url, post_id, error_message, published_at) ==
  [success |-> success, post_url |-> post_url, post_id |-> post_id,
   error_message |-> error_message, published_at |-> published_at]

\* title[:20] on the titles tried: the two long ones share their first 20
\* characters
Slice20(title) ==
  IF title \in {"a-title-of-21-chars-A", "a-title-of-21-chars-B"}
  THEN "a-title-of-21-chars-"
  ELSE title

\* a publisher's answer: the PublishResult, and whether an HTTP request was sent
Answer(res, sent) == [result |-> res, sent |-> sent]

\* variant: the placeholder URL also carries the visibility
DryRunPublisher_publish_mode_url(content, visibility) ==
  Answer(PublishResult(TRUE,
                       <<"https://example.tistory.com/dry-run-", Slice20(content.title),
                         visibility>>,
                       "dry-run-12345", None, "now"),
         FALSE)

\* DryRunPublisher.publish
DryRunPublisher_publish(content, visibility) ==
  Answer(PublishResult(TRUE,
                       <<"https://example.tistory.com/dry-run-", Slice20(content.title)>>,
                       "dry-run-12345", None, "now"),
         FALSE)

\* TistoryPublisher.publish; http is what happens to the request:
\* "no_creds" (api key or blog name missing, no request is sent), "ok200",
\* "api_error" (a status other than "200" and no error_message in the
\* answer), "api_error_empty" (a status other than "200" and the answer's
\* error_message is the empty string, which .get passes on as it is),
\* "network_error" or "exception"
TistoryPublisher_publish(content, visibility, http) ==
  CASE http = "no_creds" ->
         Answer(PublishResult(FALSE, <<>>, None,
                              "Tistory credentials not configured", None), FALSE)
    [] http = "ok200" ->
         Answer(PublishResult(TRUE, <<"tistory-url">>, "postId", None, "now"), TRUE)
    [] http = "api_error" ->
         Answer(PublishResult(FALSE, <<>>, None, "Unknown error", None), TRUE)
    [] http = "api_error_empty" ->
         Answer(PublishResult(FALSE, <<>>, None, "", None), TRUE)
    [] http = "network_error" ->
         Answer(PublishResult(FALSE, <<>>, None, "Network error", None), TRUE)
    [] OTHER ->
         Answer(PublishResult(FALSE, <<>>, None, "Unexpected error", None), TRUE)

HttpOutcomes ==
  {"no_creds", "ok200", "api_error", "api_error_empty", "network_error", "exception"}

\* get_publisher(dry_run) and the call self.publisher.publish(...)
publisher_publish(content, visibility, http) ==
  IF settings.dry_run THEN DryRunPublisher_publish(content, visibility)
  ELSE TistoryPublisher_publish(content, visibility, http)

\* str.lower() on the answers tried
Lower(a) == IF a = "YES" THEN "yes" ELSE a

\* the operator's answers to input(); "EOF" is input() raising EOFError
Approvals == {"yes", "YES", "no", "y", "", "EOF"}

\* ---------------------------------------------------------------- publish
\* variant: publish_mode is the visibility whether or not auto_publish is on
publish_node_mode_always(st, approval, http) ==
  LET st1 == Put(st, "current_stage", "publish")
  IN IF ~Has(st1, "final_content")
     THEN [st |-> AppendError(st1, "Publish error"), raised |-> FALSE,
           failed |-> TRUE, call |-> <<>>]
     ELSE IF settings.enable_manual_approval /\ approval = "EOF"
     THEN [st |-> AppendError(st1, "Publish error"), raised |-> FALSE,
           failed |-> TRUE, call |-> <<>>]
     ELSE IF settings.enable_manual_approval /\ Lower(approval) # "yes"
     THEN [st |-> Put(st1, "publish_result",
                      [success |-> FALSE, error_message |-> "Cancelled by user"]),
           raised |-> FALSE, failed |-> FALSE, call |-> <<>>]
     ELSE LET content == st1["final_content"]
              visibility == settings.publish_mode
              ans == publisher_publish(content, visibility, http)
          IN [st |-> Put(st1, "publish_result", ans.result), raised |-> FALSE,
              failed |-> FALSE,
              call |-> <<[visibility |-> visibility, content |-> content,
                          stage |-> st1["current_stage"],
                          success |-> ans.result.success, sent |-> ans.sent]>>]

\* variant: only the answer "no" cancels the publication
publish_node_only_no(st, approval, http) ==
  LET st1 == Put(st, "current_stage", "publish")
  IN IF ~Has(st1, "final_content")
     THEN [st |-> AppendError(st1, "Publish error"), raised |-> FALSE,
           failed |-> TRUE, call |-> <<>>]
     ELSE IF settings.enable_manual_approval /\ approval = "EOF"
     THEN [st |-> AppendError(st1, "Publish error"), raised |-> FALSE,
           failed |-> TRUE, call |-> <<>>]
     ELSE IF settings.enable_manual_approval /\ Lower(approval) = "no"
     THEN [st |-> Put(st1, "publish_result",
                      [success |-> FALSE, error_message |-> "Cancelled by user"]),
           raised |-> FALSE, failed |-> FALSE, call |-> <<>>]
     ELSE LET content == st1["final_content"]
              visibility == IF settings.auto_publish THEN settings.publish_mode
                            ELSE "draft"
              ans == publisher_publish(content, visibility, http)
          IN [st |-> Put(st1, "publish_result", ans.result), raised |-> FALSE,
              failed |-> FALSE,
              call |-> <<[visibility |-> visibility, content |-> content,
                          stage |-> st1["current_stage"],
                          success |-> ans.result.success, sent |-> ans.sent]>>]

\* variant: current_stage is set after the publisher was called
publish_node_late_stage(st, approval, http) ==
  IF ~Has(st, "final_content") \/ (settings.enable_manual_approval /\ approval = "EOF")
  THEN [st |-> AppendError(Put(st, "current_stage", "publish"), "Publish error"),
        raised |-> FALSE, failed |-> TRUE, call |-> <<>>]
  ELSE IF settings.enable_manual_approval /\ Lower(approval) # "yes"
  THEN [st |-> Put(Put(st, "current_stage", "publish"), "publish_result",
                   [success |-> FALSE, error_message |-> "Cancelled by user"]),
        raised |-> FALSE, failed |-> FALSE, call |-> <<>>]
  ELSE LET content == st["final_content"]
           visibility == IF settings.auto_publish THEN settings.publish_mode
                         ELSE "draft"
           ans == publisher_publish(content, visibility, http)
       IN [st |-> Put(Put(st, "publish_result", ans.result), "current_stage", "publish"),
           raised |-> FALSE, failed |-> FALSE,
           call |-> <<[visibility |-> visibility, content |-> content,
                       stage |-> st["current_stage"],
                       success |-> ans.result.success, sent |-> ans.sent]>>]

\* call is the list of calls made to the publish collaborator (none or one)
publish_node(st, approval, http) ==
  LET st1 == Put(st, "current_stage", "publish")
  IN IF ~Has(st1, "final_content")
     THEN [st |-> AppendError(st1, "Publish error"), raised |-> FALSE,
           failed |-> TRUE, call |-> <<>>]
     ELSE IF settings.enable_manual_approval /\ approval = "EOF"
     THEN [st |-> AppendError(st1, "Publish error"), raised |-> FALSE,
           failed |-> TRUE, call |-> <<>>]
     ELSE IF settings.enable_manual_approval /\ Lower(approval) # "yes"
     THEN [st |-> Put(st1, "publish_result",
                      [success |-> FALSE, error_message |-> "Cancelled by user"]),
           raised |-> FALSE, failed |-> FALSE, call |-> <<>>]
     ELSE LET content == st1["final_content"]
              visibility == IF settings.auto_publish THEN settings.publish_mode
                            ELSE "draft"
              ans == publisher_publish(content, visibility, http)
          IN [st |-> Put(st1, "publish_result", ans.result), raised |-> FALSE,
              failed |-> FALSE,
              call |-> <<[visibility |-> visibility, content |-> content,
                          stage |-> st1["current_stage"],
                          success |-> ans.result.success, sent |-> ans.sent]>>]

\* ---------------------------------------------------------------- run(): results
\* run(), lines 255-257: graph.invoke returned, its value is the result
run_return(final_state) == [raised |-> FALSE, st |-> final_state]

\* variant: the handler returns a state built afresh from the topic
run_except_fresh(ist) ==
  [raised |-> FALSE,
   st |-> AppendError(InitialState(ist["topic"].title), "Pipeline error")]

\* variant: the handler records the error and raises it again
run_except_reraise(ist) == [raised |-> TRUE, st |-> AppendError(ist, "Pipeline error")]

\* run(), lines 258-261: an exception left graph.invoke.  The nodes update
\* the dict they are given in place (state["errors"].append, state[k] = v)
\* and return it, and nothing in the source copies it, so initial_state here
\* is the dict the stages have worked on
run_except(ist) == [raised |-> FALSE, st |-> AppendError(ist, "Pipeline error")]

\* ---------------------------------------------------------------- the state machine
\* BlogPipeline(rag_system).run called by a program that has built the
\* RAGSystem itself: vector_store tells whether its vector store is set
DirectRun(vector_store) ==
  [pc |-> "direct", openai_api_key |-> TRUE, rag |-> TRUE,
   vector_store |-> vector_store, kb_calls |-> 0, documents |-> 0,
   store_exists |-> FALSE, pipeline |-> TRUE, exit |-> "running"]

SettingsSet ==
  [max_writing_iterations : 0..MaxIterationsCfg,
   enable_manual_approval : BOOLEAN,
   auto_publish : BOOLEAN,
   publish_mode : PublishModes,
   dry_run : BOOLEAN]

Init ==
  /\ settings \in SettingsSet
  /\ \E title \in Titles : state = InitialState(title)
  /\ pc = "research"
  /\ result = NoResult
  /\ executed = <<>>
  /\ decisions = <<>>
  /\ publishCalls = <<>>
  \* docs: the number of documents retrieved (-1 before the retrieval);
  \* failed: a generation collaborator (outline, writer, critic) has raised
  /\ collab = [docs |-> -1, failed |-> FALSE]
  /\ stageErrors = <<>>
  /\ outcomes = <<>>
  /\ \E vs \in BOOLEAN : app = DirectRun(vs)
  /\ video = VideoOff

\* a node ran and left r: the graph's dict is r.st; on an exception the graph
\* is left for run()'s handler, otherwise control passes to next
Step(r, stage, next) ==
  /\ state' = r.st
  /\ executed' = Append(executed, stage)
  /\ outcomes' = Append(outcomes, IF r.raised THEN "raised"
                                  ELSE IF r.failed THEN "failed" ELSE "ok")
  /\ stageErrors' = stageErrors \o
       SubSeq(r.st["errors"], Len(state["errors"]) + 1, Len(r.st["errors"]))
  /\ pc' = IF r.raised THEN "except" ELSE next
  /\ UNCHANGED <<video, settings, result, decisions, app>>

\* an exception of the retrieval would leave ResearchAgent.research at line 40
\* and reach the node's except branch
ResearchNode ==
  /\ pc = "research"
  /\ \E search_raises \in BOOLEAN, found \in SeqsUpTo(Scores, MaxDocs),
        facts \in FactsOutcomes :
       LET rv == retrieve_with_scores(app.vector_store, search_raises, found)
       IN /\ Step(IF rv.raised
                  THEN [st |-> AppendError(Put(state, "current_stage", "research"),
                                           "Research error"),
                        raised |-> FALSE, failed |-> TRUE]
                  ELSE research_node(state, rv.docs, facts),
                  "research", "outline")
          /\ collab' = [collab EXCEPT !.docs = Len(rv.docs)]
  /\ UNCHANGED publishCalls

OutlineNode ==
  /\ pc = "outline"
  /\ \E llm \in {"ok", "raise"} :
       /\ Step(outline_node(state, llm), "outline", "write")
       /\ collab' = [collab EXCEPT !.failed = @ \/ llm = "raise"]
  /\ UNCHANGED publishCalls

WriteNode ==
  /\ pc = "write"
  /\ Count(executed, "write") < MaxWrites
  /\ \E llm \in {"ok", "raise"} :
       /\ Step(write_node(state, llm), "write", "critique")
       /\ collab' = [collab EXCEPT !.failed = @ \/ llm = "raise"]
  /\ UNCHANGED publishCalls

CritiqueNode ==
  /\ pc = "critique"
  /\ \E review \in {"approved", "rejected", "raise"} :
       /\ Step(critique_node(state, review), "critique", "gate")
       /\ collab' = [collab EXCEPT !.failed = @ \/ review = "raise"]
  /\ UNCHANGED publishCalls

\* variant: the "revise" edge leads to critique instead of write
Gate_revise_to_critique ==
  /\ pc = "gate"
  /\ LET d == should_revise(state)
     IN /\ decisions' = Append(decisions,
              [qa |-> IF Has(state, "qa_result")
                      THEN (IF state["qa_result"].approved THEN "approved" ELSE "rejected")
                      ELSE "unset",
               qa_pass |-> IF Has(state, "qa_result") THEN state["qa_result"].pass ELSE 0,
               iteration |-> state["iteration_count"],
               decision |-> d])
        /\ pc' = CASE d = "revise" -> "critique"
                   [] d = "optimize" -> "optimize"
                   [] OTHER -> "except"
  /\ UNCHANGED <<video, settings, state, result, executed, publishCalls, collab,
                 stageErrors, outcomes, app>>

\* the conditional edge after critique: _should_revise picks the next node
Gate ==
  /\ pc = "gate"
  /\ LET d == should_revise(state)
     IN /\ decisions' = Append(decisions,
              [qa |-> IF Has(state, "qa_result")
                      THEN (IF state["qa_result"].approved THEN "approved" ELSE "rejected")
                      ELSE "unset",
               qa_pass |-> IF Has(state, "qa_result") THEN state["qa_result"].pass ELSE 0,
               iteration |-> state["iteration_count"],
               decision |-> d])
        /\ pc' = CASE d = "revise" -> "write"
                   [] d = "optimize" -> "optimize"
                   [] OTHER -> "except"
  /\ UNCHANGED <<video, settings, state, result, executed, publishCalls, collab,
                 stageErrors, outcomes, app>>

OptimizeNode ==
  /\ pc = "optimize"
  /\ \E seo \in {"ok", "raise"} :
       Step(optimize_node(state, seo), "optimize", "publish")
  /\ UNCHANGED <<publishCalls, collab>>

PublishNode ==
  /\ pc = "publish"
  /\ \E approval \in Approvals, http \in HttpOutcomes :
       LET r == publish_node(state, approval, http)
       IN /\ Step(r, "publish", "END")
          /\ publishCalls' = publishCalls \o r.call
  /\ UNCHANGED collab

RunReturn ==
  /\ pc = "END"
  /\ LET r == run_return(state)
     IN /\ result' = r.st
        /\ pc' = IF r.raised THEN "raised" ELSE "returned"
  /\ UNCHANGED <<video, settings, state, executed, decisions, publishCalls, collab,
                 stageErrors, outcomes, app>>

RunExcept ==
  /\ pc = "except"
  /\ LET r == run_except(state)
     IN /\ state' = r.st
        /\ result' = r.st
        /\ pc' = IF r.raised THEN "raised" ELSE "returned"
  /\ UNCHANGED <<video, settings, executed, decisions, publishCalls, collab, stageErrors,
                 outcomes, app>>

Next ==
  \/ ResearchNode
  \/ OutlineNode
  \/ WriteNode
  \/ CritiqueNode
  \/ Gate
  \/ OptimizeNode
  \/ PublishNode
  \/ RunReturn
  \/ RunExcept

Spec == Init /\ [][Next]_vars

\* stages run one after the other and each one completes, so a run that can
\* take a step takes it
FairSpec == Spec /\ WF_vars(Next)

\* ---------------------------------------------------------------- main()
\* variant: a missing key is logged and main goes on
main_startup_warn_only(openai_api_key) ==
  [pc |-> "create_app", exit |-> "running"]

\* main(), lines 139-142: without OPENAI_API_KEY the process exits with 1
main_startup(openai_api_key) ==
  IF ~openai_api_key
  THEN [pc |-> "exited", exit |-> "exit1"]
  ELSE [pc |-> "create_app", exit |-> "running"]

\* RAGSystem.load_vector_store: settings has no vector_store_type, so the
\* first statement of the try block raises AttributeError, the handler logs
\* it and the method returns False with self.vector_store still None
load_vector_store == FALSE

\* RAGSystem.build_vector_store on documents loaded: nothing without
\* documents; otherwise the chunks are made and settings.vector_store_type
\* raises AttributeError, outside any try block
build_vector_store(documents) ==
  IF documents = 0 THEN [raised |-> FALSE, vector_store |-> FALSE]
  ELSE [raised |-> TRUE, vector_store |-> FALSE]

\* BlogContentApp.initialize_knowledge_base: store_exists tells whether the
\* vector store path exists, documents is the number of documents
\* load_documents returns
initialize_knowledge_base(store_exists, rebuild, documents) ==
  IF store_exists /\ ~rebuild /\ load_vector_store
  THEN [raised |-> FALSE, vector_store |-> TRUE]
  ELSE IF documents = 0
  THEN [raised |-> FALSE, vector_store |-> FALSE]
  ELSE build_vector_store(documents)

\* the process has started and main() is about to run; Settings was built
\* when config was imported, and main passes dry_run=True
MainInit ==
  /\ settings \in {s \in SettingsSet : s.dry_run}
  /\ state = <<>>
  /\ pc = "idle"
  /\ result = NoResult
  /\ executed = <<>>
  /\ decisions = <<>>
  /\ publishCalls = <<>>
  /\ collab = [docs |-> -1, failed |-> FALSE]
  /\ stageErrors = <<>>
  /\ outcomes = <<>>
  /\ \E key \in BOOLEAN :
       app = [pc |-> "main", openai_api_key |-> key, rag |-> FALSE,
              vector_store |-> FALSE, kb_calls |-> 0, documents |-> 0,
              store_exists |-> FALSE, pipeline |-> FALSE, exit |-> "running"]
  /\ video = VideoOff

\* main(), lines 134-142
MainStartup ==
  /\ app.pc = "main"
  /\ LET r == main_startup(app.openai_api_key)
     IN app' = [app EXCEPT !.pc = r.pc, !.exit = r.exit]
  /\ UNCHANGED <<video, settings, state, pc, result, executed, decisions, publishCalls,
                 collab, stageErrors, outcomes>>

\* main(), line 145: BlogContentApp.__init__ builds the RAGSystem
MainCreateApp ==
  /\ app.pc = "create_app"
  /\ app' = [app EXCEPT !.pc = "init_kb", !.rag = TRUE]
  /\ UNCHANGED <<video, settings, state, pc, result, executed, decisions, publishCalls,
                 collab, stageErrors, outcomes>>

\* main(), lines 149-180: the knowledge base is initialized from the sources
\* found (rebuild=False) or from the sample written (rebuild=True); an
\* exception is not caught by main and ends the process
MainKnowledgeBase ==
  /\ app.pc = "init_kb"
  /\ \E sources_exist \in BOOLEAN, store_exists \in BOOLEAN, documents \in 0..MaxDocs :
       LET r == initialize_knowledge_base(store_exists, ~sources_exist, documents)
       IN app' = [app EXCEPT !.pc = IF r.raised THEN "exited" ELSE "run_pipeline",
                             !.exit = IF r.raised THEN "uncaught" ELSE "running",
                             !.vector_store = r.vector_store,
                             !.kb_calls = @ + 1,
                             !.documents = documents,
                             !.store_exists = store_exists]
  /\ UNCHANGED <<video, settings, state, pc, result, executed, decisions, publishCalls,
                 collab, stageErrors, outcomes>>

\* variant: run_pipeline builds the pipeline without looking at the
\* vector store
run_pipeline_nocheck(vector_store) ==
  [raised |-> FALSE, pipeline |-> TRUE]

\* BlogContentApp.run_pipeline up to the construction of BlogPipeline:
\* without a vector store it raises RuntimeError before anything is built
run_pipeline(vector_store) ==
  IF ~vector_store
  THEN [raised |-> TRUE, pipeline |-> FALSE]
  ELSE [raised |-> FALSE, pipeline |-> TRUE]

\* main(), lines 195-230 and BlogContentApp.run_pipeline: when run_pipeline
\* raises, main's handler logs it and exits with 1; otherwise
\* BlogPipeline.run is called
MainRunPipeline ==
  /\ app.pc = "run_pipeline"
  /\ LET r == run_pipeline(app.vector_store)
     IN IF r.raised
        THEN /\ app' = [app EXCEPT !.pc = "exited", !.exit = "exit1",
                                   !.pipeline = r.pipeline]
             /\ UNCHANGED <<state, pc>>
        ELSE /\ app' = [app EXCEPT !.pc = "pipeline", !.pipeline = r.pipeline]
             /\ \E title \in Titles : state' = InitialState(title)
             /\ pc' = "research"
  /\ UNCHANGED <<video, settings, result, executed, decisions, publishCalls, collab,
                 stageErrors, outcomes>>

\* main() never gets a vector store (load_vector_store and
\* build_vector_store), so no stage of the pipeline is a step of it
MainNext ==
  \/ MainStartup
  \/ MainCreateApp
  \/ MainKnowledgeBase
  \/ MainRunPipeline

MainSpec == MainInit /\ [][MainNext]_vars

\* ================================================================ the video pipeline
\* a Python str is a sequence of one-character strings
UpperCase ==
  <<"A", "B", "C", "D", "E", "F", "G", "H", "I", "J", "K", "L", "M",
    "N", "O", "P", "Q", "R", "S", "T", "U", "V", "W", "X", "Y", "Z">>
LowerCase ==
  <<"a", "b", "c", "d", "e", "f", "g", "h", "i", "j", "k", "l", "m",
    "n", "o", "p", "q", "r", "s", "t", "u", "v", "w", "x", "y", "z">>

\* str.lower() on the characters tried
str_lower(s) ==
  [i \in 1..Len(s) |->
     IF \E j \in DOMAIN UpperCase : UpperCase[j] = s[i]
     THEN LowerCase[CHOOSE j \in DOMAIN UpperCase : UpperCase[j] = s[i]]
     ELSE s[i]]

\* Python's `sub in s` on strings
str_in(sub, s) ==
  \E i \in 1..(Len(s) - Len(sub) + 1) : SubSeq(s, i, i + Len(sub) - 1) = sub

\* the words the topics tried are made of
Words ==
  { <<"A", "I", " ">>,
    <<"T", "r", "e", "n", "d", "s", " ">>,
    <<"(", "B", "o", "t", "h", ")">>,
    <<"H", "i", "s", "t", "o", "r", "y">>,
    <<"P", "R", "O", "M", "O", " ">>,
    <<"s", "h", "o", "r", "t">> }

RECURSIVE TopicsOf(_)
TopicsOf(n) ==
  IF n = 0 THEN {<<>>}
  ELSE LET T == TopicsOf(n - 1) IN T \cup {t \o w : t \in T, w \in Words}

\* main's two examples: "The History of Computing", "AI Trends 2024 (Both)"
TheHistoryOfComputing ==
  <<"T", "h", "e", " ", "H", "i", "s", "t", "o", "r", "y", " ", "o", "f", " ",
    "C", "o", "m", "p", "u", "t", "i", "n", "g">>
AITrends2024Both ==
  <<"A", "I", " ", "T", "r", "e", "n", "d", "s", " ", "2", "0", "2", "4", " ",
    "(", "B", "o", "t", "h", ")">>

Topics == TopicsOf(MaxWords) \cup {TheHistoryOfComputing, AITrends2024Both}

\* "Default AI Topic"
DefaultTopic ==
  <<"D", "e", "f", "a", "u", "l", "t", " ", "A", "I", " ", "T", "o", "p", "i", "c">>

\* the dicts app.invoke is called with: main's shape with each topic, with
\* the empty topic (in Topics) and without the topic key
InitialVideoStates ==
  {("topic" :> t) @@ ("retry_count" :> 0) : t \in Topics} \cup {("retry_count" :> 0)}

\* topic_planner: state.get("topic") or "Default AI Topic"
topic_planner(st) ==
  LET topic == IF Has(st, "topic") /\ st["topic"] # <<>>
               THEN st["topic"] ELSE DefaultTopic
  IN ("topic" :> topic) @@ ("error" :> None)

\* variant: the short-form keywords are looked for before "both"
content_type_router_short_first(st) ==
  LET topic == str_lower(IF Has(st, "topic") THEN st["topic"] ELSE <<>>)
      c_type == IF \E keyword \in { <<"t", "r", "e", "n", "d">>,
                                    <<"p", "r", "o", "m", "o">>,
                                    <<"s", "h", "o", "r", "t">> } :
                     str_in(keyword, topic)
                THEN "short"
                ELSE IF str_in(<<"b", "o", "t", "h">>, topic) THEN "both"
                ELSE "long"
  IN ("content_type" :> c_type)

\* content_type_router: the decision rules on state.get("topic", "").lower()
content_type_router(st) ==
  LET topic == str_lower(IF Has(st, "topic") THEN st["topic"] ELSE <<>>)
      c_type == IF str_in(<<"b", "o", "t", "h">>, topic) THEN "both"
                ELSE IF \E keyword \in { <<"t", "r", "e", "n", "d">>,
                                         <<"p", "r", "o", "m", "o">>,
                                         <<"s", "h", "o", "r", "t">> } :
                          str_in(keyword, topic)
                THEN "short"
                ELSE "long"
  IN ("content_type" :> c_type)

\* the long-form nodes: each returns the fields it sets (an f-string is
\* the pair of its text and the topic put into it)
script_generator(st) ==
  ("script" :> <<"Long script about ", st["topic"], "...">>) @@ ("error" :> None)
voice_generator(st) ==
  ("voice_path" :> "output/long_voice.mp3") @@ ("error" :> None)
asset_generator(st) ==
  ("image_paths" :> <<"img1.png", "img2.png", "img3.png">>) @@ ("error" :> None)
video_composer(st) ==
  ("video_path" :> "output/final_video.mp4") @@ ("error" :> None)
metadata_generator(st) ==
  ("title" :> <<"Deep Dive: ", st["topic"]>>)
    @@ ("description" :> "A comprehensive look at...")
    @@ ("tags" :> <<"AI", "Tech", st["topic"]>>)
    @@ ("error" :> None)
youtube_upload(st) ==
  ("upload_status" :> "success") @@ ("error" :> None)

\* the short-form nodes
short_script_generator(st) ==
  ("short_script" :> <<"Shorts script: ", st["topic"], " in 60s!">>) @@ ("error" :> None)
short_voice_generator(st) ==
  ("short_voice_path" :> "output/short_voice.mp3") @@ ("error" :> None)
short_asset_generator(st) ==
  ("short_image_paths" :> <<"s_img1.png", "s_img2.png">>) @@ ("error" :> None)
short_video_composer(st) ==
  ("short_video_path" :> "output/short_video.mp4") @@ ("error" :> None)
short_metadata_generator(st) ==
  ("short_title" :> <<st["topic"], " #Shorts">>)
    @@ ("tags" :> <<"#Shorts", st["topic"]>>)
    @@ ("error" :> None)
short_youtube_upload(st) ==
  ("short_upload_status" :> "success") @@ ("error" :> None)

\* the branches of the graph, in the order their nodes run
LongNodes ==
  <<"script_generator", "voice_generator", "asset_generator", "video_composer",
    "metadata_generator", "youtube_upload">>
ShortNodes ==
  <<"short_script_generator", "short_voice_generator", "short_asset_generator",
    "short_video_composer", "short_metadata_generator", "short_youtube_upload">>

\* what the node of that name returns on st
NodeUpdate(name, st) ==
  CASE name = "script_generator" -> script_generator(st)
    [] name = "voice_generator" -> voice_generator(st)
    [] name = "asset_generator" -> asset_generator(st)
    [] name = "video_composer" -> video_composer(st)
    [] name = "metadata_generator" -> metadata_generator(st)
    [] name = "youtube_upload" -> youtube_upload(st)
    [] name = "short_script_generator" -> short_script_generator(st)
    [] name = "short_voice_generator" -> short_voice_generator(st)
    [] name = "short_asset_generator" -> short_asset_generator(st)
    [] name = "short_video_composer" -> short_video_composer(st)
    [] name = "short_metadata_generator" -> short_metadata_generator(st)
    [] name = "short_youtube_upload" -> short_youtube_upload(st)

\* the graph puts the fields a node returned into the state: a field
\* returned replaces the state's value, the other fields stay
StateUpdate(st, upd) ==
  [k \in DOMAIN st \cup DOMAIN upd |-> IF k \in DOMAIN upd THEN upd[k] ELSE st[k]]

\* the branches content_type selects
BranchActive(branch) ==
  /\ video.pc = "branches"
  /\ video.state["content_type"] \in {branch, "both"}

\* app.invoke(initial_state) is about to run the graph's entry node
VideoInit ==
  /\ settings = [max_writing_iterations |-> MaxIterationsCfg,
                 enable_manual_approval |-> FALSE, auto_publish |-> FALSE,
                 publish_mode |-> "draft", dry_run |-> TRUE]
  /\ state = <<>>
  /\ pc = "idle"
  /\ result = NoResult
  /\ executed = <<>>
  /\ decisions = <<>>
  /\ publishCalls = <<>>
  /\ collab = [docs |-> -1, failed |-> FALSE]
  /\ stageErrors = <<>>
  /\ outcomes = <<>>
  /\ app = [DirectRun(FALSE) EXCEPT !.pc = "off", !.rag = FALSE, !.pipeline = FALSE]
  /\ \E initial_state \in InitialVideoStates :
       video = [VideoOff EXCEPT !.pc = "topic_planner", !.state = initial_state]

\* the entry node
TopicPlanner ==
  /\ video.pc = "topic_planner"
  /\ video' = [video EXCEPT !.pc = "content_type_router",
                            !.state = StateUpdate(@, topic_planner(@))]
  /\ UNCHANGED blogVars

\* the router runs on what topic_planner left and the branches it selects
\* start
ContentTypeRouter ==
  /\ video.pc = "content_type_router"
  /\ video' = [video EXCEPT !.pc = "branches",
                            !.state = StateUpdate(@, content_type_router(@))]
  /\ UNCHANGED blogVars

\* the next node of the long-form branch runs
LongBranchStep ==
  /\ BranchActive("long")
  /\ video.long < Len(LongNodes)
  /\ LET upd == NodeUpdate(LongNodes[video.long + 1], video.state)
     IN video' = [video EXCEPT !.long = @ + 1,
                               !.state = StateUpdate(@, upd),
                               !.writers = @ \cup {<<"long", k>> : k \in DOMAIN upd}]
  /\ UNCHANGED blogVars

\* the next node of the short-form branch runs
ShortBranchStep ==
  /\ BranchActive("short")
  /\ video.short < Len(ShortNodes)
  /\ LET upd == NodeUpdate(ShortNodes[video.short + 1], video.state)
     IN video' = [video EXCEPT !.short = @ + 1,
                               !.state = StateUpdate(@, upd),
                               !.writers = @ \cup {<<"short", k>> : k \in DOMAIN upd}]
  /\ UNCHANGED blogVars

\* every branch selected has run its last node
VideoEnd ==
  /\ video.pc = "branches"
  /\ BranchActive("long") => video.long = Len(LongNodes)
  /\ BranchActive("short") => video.short = Len(ShortNodes)
  /\ video' = [video EXCEPT !.pc = "END"]
  /\ UNCHANGED blogVars

VideoNext ==
  \/ TopicPlanner
  \/ ContentTypeRouter
  \/ LongBranchStep
  \/ ShortBranchStep
  \/ VideoEnd

VideoSpec == VideoInit /\ [][VideoNext]_vars

\* ================================================================ properties
max_writing_iterations == settings.max_writing_iterations
iteration_count == state["iteration_count"]
nWrites == Count(executed, "write")
QaApproved == Has(state, "qa_result") /\ state["qa_result"].approved
InErrors(st, e) == \E i \in DOMAIN st["errors"] : st["errors"][i] = e
Last(s) == s[Len(s)]

\* C1: every evaluation of the revision gate on a state that has a QA result
\* decides "optimize" (advance) when the result is approved, whatever the
\* iteration count, decides "optimize" when iteration_count >=
\* max_writing_iterations, approved or not, and decides "revise" only when
\* the result is rejected and iteration_count < max_writing_iterations.
C1_GateDecision ==
  \A i \in DOMAIN decisions :
    LET d == decisions[i]
    IN /\ (d.qa = "approved" => d.decision = "optimize")
       /\ (d.qa # "unset" /\ d.iteration >= max_writing_iterations
             => d.decision = "optimize")
       /\ (d.decision = "revise"
             => d.qa = "rejected" /\ d.iteration < max_writing_iterations)

\* the gate has revised once and then advanced on a rejected draft at the limit
C1_Witness ==
  /\ Len(decisions) = 2
  /\ decisions[1].decision = "revise"
  /\ decisions[2].qa = "rejected"
  /\ decisions[2].iteration >= max_writing_iterations
  /\ decisions[2].decision = "optimize"

\* C2: in every run the write stage (one pass of the write -> critique ->
\* gate loop) executes at most max_writing_iterations + 1 times, and the run
\* eventually leaves the loop for good, whatever the critiques answer.
C2_LoopBounded ==
  /\ [](nWrites <= max_writing_iterations + 1)
  /\ <>[](pc \notin {"write", "critique", "gate"})

\* with max_writing_iterations = 0 the loop ran max + 1 = 1 times and was left
C2_Witness ==
  /\ max_writing_iterations = 0
  /\ nWrites = max_writing_iterations + 1
  /\ pc = "optimize"

\* C3: iteration_count is 0 at the start, equals the number of write-stage
\* executions at every point, never decreases, and grows by exactly 1 in each
\* write execution, failed ones included.
C3_IterationCount ==
  /\ iteration_count = 0
  /\ [](iteration_count = nWrites)
  /\ [][state'["iteration_count"] >= iteration_count]_vars
  /\ [][Count(executed', "write") = nWrites + 1
          => state'["iteration_count"] = iteration_count + 1]_vars

\* a second write execution has failed and was counted
C3_Witness ==
  /\ nWrites = 2
  /\ iteration_count = 2
  /\ Last(state["errors"]) = "Write error"
  /\ pc = "critique"

\* C4: once a critique has produced approved=true, or once iteration_count
\* has reached max_writing_iterations, no step executes the write stage
\* again (a step that re-executes it after an earlier execution).  With
\* max_writing_iterations = 0 the counter is at the limit from the start and
\* the one step that executes write is its first execution.
C4_NoWriteAgain ==
  [][(QaApproved \/ iteration_count >= max_writing_iterations) /\ nWrites >= 1
       => Count(executed', "write") = nWrites]_vars

\* a rejected draft at the limit was passed on and the run went to its end
\* without another write
C4_Witness ==
  /\ pc = "returned"
  /\ Has(state, "qa_result") /\ ~state["qa_result"].approved
  /\ max_writing_iterations >= 1
  /\ iteration_count = max_writing_iterations
  /\ Last(executed) = "publish"

\* C5 as stated: when the critique stage failed and left the QA result
\* unset, the gate decides "optimize" (advance) and does not raise.
C5_GateAdvancesOnMissingQA ==
  \A i \in DOMAIN decisions :
    decisions[i].qa = "unset" => decisions[i].decision = "optimize"

\* C6: run never lets an exception out: whatever the collaborators do, it
\* ends by returning a state dict (with its error list and stage marker).
C6_RunNeverRaises ==
  /\ pc # "raised"
  /\ (pc = "returned" => Has(result, "errors") /\ Has(result, "current_stage"))

\* an exception left the graph and run still returned a state
C6_Witness ==
  /\ pc = "returned"
  /\ Last(result["errors"]) = "Pipeline error"
  /\ Last(executed) = "critique"

\* C7 as stated: whatever stages fail, the run is not aborted and the
\* publish stage is executed before run returns.
C7_PublishAlwaysExecuted ==
  pc = "returned" => Count(executed, "publish") = 1

\* C8: the state run returns holds every error entry the stages appended
\* during the run, in order, and a current_stage naming the last stage that
\* started, also when an exception left the graph.
C8_ReturnedStateComplete ==
  pc = "returned" =>
    /\ IsPrefix(stageErrors, result["errors"])
    /\ result["current_stage"] = Last(executed)

\* an exception left the graph after four failed stages; the state returned
\* by the handler holds their entries and names the critique stage
C8_Witness ==
  /\ pc = "returned"
  /\ Last(result["errors"]) = "Pipeline error"
  /\ Len(stageErrors) = 4
  /\ result["current_stage"] = "critique"

\* C9: every step of a run leaves the error list it found as a prefix of
\* the error list it leaves: entries are only appended.
C9_ErrorsAppendOnly ==
  [][IsPrefix(state["errors"], state'["errors"])]_vars

\* three stages in a row have each added their entry
C9_Witness ==
  /\ Len(state["errors"]) >= 3
  /\ state["errors"][1] = "Research error"
  /\ state["errors"][2] = "Outline error"
  /\ state["errors"][3] = "Write error"

\* C10: after a retrieval of zero documents the research stage has stored a
\* research context with confidence_score 0 and no facts; such a run ends,
\* and when no generation collaborator raised it has executed publish.
C10_EmptyRetrieval ==
  /\ [](collab.docs = 0 =>
          /\ Has(state, "research_context")
          /\ state["research_context"].confidence_score = 0
          /\ state["research_context"].key_facts = <<>>)
  /\ [](pc = "returned" /\ collab.docs = 0 /\ ~collab.failed
          => Count(executed, "publish") = 1)
  /\ ((collab.docs = 0) ~> (pc = "returned"))

\* a run on an empty retrieval, with every generation call answered, is over
\* and has published
C10_Witness ==
  /\ pc = "returned"
  /\ collab.docs = 0
  /\ ~collab.failed
  /\ Last(executed) = "publish"
  /\ state["research_context"].sources = <<>>

\* ---------------------------------------------------------------- C11..C20
\* the artifact fields of the state dict
ArtifactKeys ==
  {"research_context", "outline", "draft_content", "qa_result", "final_content",
   "publish_result"}

\* key k is in both dicts with the same value, or in neither
SameAt(s1, s2, k) == (Has(s1, k) <=> Has(s2, k)) /\ (Has(s1, k) => s1[k] = s2[k])

Max(S) == CHOOSE x \in S : \A y \in S : y <= x

\* the publisher was called and answered with a failure
FailedCall == publishCalls # <<>> /\ ~publishCalls[1].success

\* C11 as stated: when the publisher has answered with a failure, the state
\* run returns has a publish_result with success = false and a non-empty
\* error_message, and the publish step left outline, draft_content and
\* final_content as they were.
C11_PublishFailure ==
  /\ [](pc = "returned" /\ FailedCall =>
          /\ Has(result, "publish_result")
          /\ ~result["publish_result"].success
          /\ result["publish_result"].error_message \notin {None, ""})
  /\ [][pc = "publish" /\ publishCalls' # <<>> /\ ~publishCalls'[1].success
          => \A k \in {"outline", "draft_content", "final_content"} :
               Has(state, k) /\ SameAt(state, state', k)]_vars

\* the publish stage has run and failed: the publisher answered with a
\* failure, or the stage's except branch ran
PublishFailed ==
  /\ Count(executed, "publish") = 1
  /\ Last(executed) = "publish"
  /\ (FailedCall \/ Last(outcomes) = "failed")

\* C12 as stated: after every failed publish stage the error list holds the
\* stage's entry and publish_result records success = false with a message.
C12_FailedPublishRecorded ==
  PublishFailed =>
    /\ InErrors(state, "Publish error")
    /\ Has(state, "publish_result")
    /\ ~state["publish_result"].success
    /\ state["publish_result"].error_message \notin {None, ""}

\* C13: once the optimize stage has run, final_content is set and equals
\* draft_content, whether the optimization succeeded or failed, and right
\* after the stage the next node is publish.
C13_FinalIsDraft ==
  Count(executed, "optimize") >= 1 =>
    /\ Has(state, "final_content")
    /\ Has(state, "draft_content")
    /\ state["final_content"] = state["draft_content"]
    /\ (Last(executed) = "optimize" => pc = "publish")

\* the optimization failed, the draft was copied and publish is next
C13_Witness ==
  /\ executed # <<>>
  /\ Last(executed) = "optimize"
  /\ Last(outcomes) = "failed"
  /\ Last(state["errors"]) = "Optimize error"
  /\ state["final_content"] = state["draft_content"]
  /\ pc = "publish"

\* the edges of the graph: which stage may directly follow which
StageEdges ==
  {<<"research", "outline">>, <<"outline", "write">>, <<"write", "critique">>,
   <<"critique", "write">>, <<"critique", "optimize">>, <<"optimize", "publish">>}

\* C14: the stages executed so far start with research and follow the edges
\* research -> outline -> write -> critique -> {write | optimize} -> publish;
\* research, outline, optimize and publish have each executed at most once;
\* a write is always followed by a critique; the gate's decision picks write
\* or optimize after a critique; and the run ends after publish.
C14_StageOrder ==
  /\ (executed # <<>> => executed[1] = "research")
  /\ \A i \in 1..(Len(executed) - 1) : <<executed[i], executed[i + 1]>> \in StageEdges
  /\ \A s \in {"research", "outline", "optimize", "publish"} : Count(executed, s) <= 1
  /\ (executed # <<>> /\ Last(executed) = "write" => pc = "critique")
  /\ (executed # <<>> /\ Last(executed) = "critique" /\ pc = "write"
        => Last(decisions).decision = "revise")
  /\ (pc = "optimize" => Last(decisions).decision = "optimize")
  /\ (executed # <<>> /\ Last(executed) = "publish" => pc \in {"END", "returned"})
  /\ (pc = "END" => Last(executed) = "publish")

\* a run with one revision pass went through all stages in order and returned
C14_Witness ==
  /\ pc = "returned"
  /\ executed = <<"research", "outline", "write", "critique", "write", "critique",
                  "optimize", "publish">>

\* C15: a step in which the research, outline, write or critique stage fails
\* appends exactly one entry to the error list, leaves topic and every
\* artifact field as it was (set or unset, and its value), and leaves
\* iteration_count as it was unless the stage is write.
C15_FailedStageFrame ==
  [][(pc \in {"research", "outline", "write", "critique"}) /\ Last(outcomes') = "failed"
       => (/\ Len(state'["errors"]) = Len(state["errors"]) + 1
           /\ IsPrefix(state["errors"], state'["errors"])
           /\ \A k \in ArtifactKeys \cup {"topic"} : SameAt(state, state', k)
           /\ DOMAIN state' = DOMAIN state
           /\ (pc # "write" => state'["iteration_count"] = iteration_count))]_vars

\* a critique failed on the second pass: the QA result of the first pass and
\* the second draft are still there
C15_Witness ==
  /\ executed # <<>>
  /\ Last(executed) = "critique"
  /\ Last(outcomes) = "failed"
  /\ iteration_count = 2
  /\ Has(state, "qa_result") /\ state["qa_result"].pass = 1
  /\ Has(state, "draft_content") /\ state["draft_content"].version = 2

\* the positions in executed of the write executions that succeeded
GoodWrites == {i \in DOMAIN executed : executed[i] = "write" /\ outcomes[i] = "ok"}

\* the ordinal, among the write executions, of the last one that succeeded
\* (0 when none has)
LastGoodWrite ==
  IF GoodWrites = {} THEN 0 ELSE Count(SubSeq(executed, 1, Max(GoodWrites)), "write")

\* C16 as stated: after a failed write execution the state has no draft
\* content, and a draft in the state is the one of the most recent write
\* execution.
C16_Original ==
  /\ (executed # <<>> /\ Last(executed) = "write" /\ Last(outcomes) = "failed"
        => ~Has(state, "draft_content"))
  /\ (Has(state, "draft_content") => state["draft_content"].version = nWrites)

\* C16 amended: a failed write execution leaves the draft content as it was
\* (unset on the first pass, the earlier pass's draft on a revision pass), and
\* a draft in the state is the one of the most recent write execution that
\* succeeded; without a successful write there is no draft.
C16_FailedWriteKeepsDraft ==
  /\ [](IF Has(state, "draft_content")
        THEN LastGoodWrite >= 1 /\ state["draft_content"].version = LastGoodWrite
        ELSE GoodWrites = {})
  /\ [][pc = "write" /\ Last(outcomes') = "failed"
          => SameAt(state, state', "draft_content")]_vars

\* the revision write failed and the first pass's draft is still in the state
C16_Witness ==
  /\ executed # <<>>
  /\ Last(executed) = "write"
  /\ Last(outcomes) = "failed"
  /\ nWrites = 2
  /\ Has(state, "draft_content")
  /\ state["draft_content"].version = 1

\* C17: whenever a stage has started, current_stage names the last stage
\* that started: it names the stage after a success, and in particular
\* after the stage failed or an exception left it, also in the state run
\* returns after the exception.
C17_StageMarker ==
  /\ (executed # <<>> => state["current_stage"] = Last(executed))
  /\ (executed # <<>> /\ Last(outcomes) \in {"failed", "raised"} /\ pc = "returned"
        => result["current_stage"] = Last(executed))

\* the outline stage failed on its first statement that can fail and the
\* state names it
C17_Witness ==
  /\ executed # <<>>
  /\ Last(executed) = "outline"
  /\ Last(outcomes) = "failed"
  /\ ~Has(state, "research_context")
  /\ state["current_stage"] = "outline"

\* the fields that are written once
WriteOnceKeys == {"topic", "research_context", "outline", "final_content", "publish_result"}

\* C18: in every state outline set implies research_context set,
\* draft_content set implies outline set, qa_result set implies draft_content
\* set, final_content set implies draft_content set and publish_result set
\* implies final_content set; no step removes a field that is set, and no
\* step changes topic, research_context, outline, final_content or
\* publish_result once it is set.
C18_MonotonePopulation ==
  /\ []((Has(state, "outline") => Has(state, "research_context"))
        /\ (Has(state, "draft_content") => Has(state, "outline"))
        /\ (Has(state, "qa_result") => Has(state, "draft_content"))
        /\ (Has(state, "final_content") => Has(state, "draft_content"))
        /\ (Has(state, "publish_result") => Has(state, "final_content")))
  /\ [][(DOMAIN state \subseteq DOMAIN state')
          /\ \A k \in WriteOnceKeys : Has(state, k) => state'[k] = state[k]]_vars

\* every field is set after a revision pass that replaced the draft and the
\* QA result
C18_Witness ==
  /\ \A k \in ArtifactKeys : Has(state, k)
  /\ state["draft_content"].version = 2
  /\ state["qa_result"].of_version = 2
  /\ pc = "returned"

\* the contents handed to the dry-run publisher: two versions of each title,
\* two of the titles agreeing on their first 20 characters
DryContents ==
  [title : {"X", "a-title-of-21-chars-A", "a-title-of-21-chars-B"}, version : 1..2]

\* C19: for every content and visibility the dry-run publisher answers
\* success = true without sending a request, contents with the same title get
\* the same post URL whatever the rest of the content and the visibility, and
\* a run configured for dry run that called its publisher recorded that
\* answer.
C19_DryRunPublisher ==
  /\ \A c \in DryContents, v \in PublishModes :
       LET a == DryRunPublisher_publish(c, v)
       IN /\ a.result.success
          /\ ~a.sent
          /\ a.result.post_url
               = DryRunPublisher_publish([title |-> c.title, version |-> 0],
                                         "draft").result.post_url
  /\ (settings.dry_run /\ publishCalls # <<>> =>
        /\ publishCalls[1].success
        /\ ~publishCalls[1].sent
        /\ state["publish_result"].success
        /\ state["publish_result"].post_url
             = DryRunPublisher_publish([title |-> publishCalls[1].content.title,
                                        version |-> 0], "draft").result.post_url)

\* a dry run has published a second draft with visibility "publish"
C19_Witness ==
  /\ settings.dry_run
  /\ publishCalls # <<>>
  /\ publishCalls[1].visibility = "publish"
  /\ publishCalls[1].content.version = 2
  /\ state["publish_result"].success
  /\ pc = "returned"

\* C20: the publisher is called at most once in a run, every call is made
\* with current_stage = "publish", and the step that calls it is the publish
\* stage's, taken from a state where final_content is set.
C20_PublisherCalls ==
  /\ [](Len(publishCalls) <= 1
        /\ \A i \in DOMAIN publishCalls : publishCalls[i].stage = "publish")
  /\ [][publishCalls' # publishCalls
          => pc = "publish" /\ Has(state, "final_content")
               /\ state'["current_stage"] = "publish"
               /\ Len(publishCalls') = Len(publishCalls) + 1]_vars

\* the run is over and its one call to the publisher was made from the
\* publish stage with the final content
C20_Witness ==
  /\ pc = "returned"
  /\ Len(publishCalls) = 1
  /\ publishCalls[1].stage = "publish"
  /\ publishCalls[1].content = result["final_content"]

\* ---------------------------------------------------------------- C21..C30
\* C21 as stated: every call of the publisher is made with visibility
\* "draft" or "publish", whatever publish_mode and auto_publish are.
C21_VisibilityDraftOrPublish ==
  \A i \in DOMAIN publishCalls : publishCalls[i].visibility \in {"draft", "publish"}

\* C22: a process started without OPENAI_API_KEY never builds the RAGSystem,
\* never initializes the knowledge base and never starts a pipeline run or a
\* stage, and the step main takes from its start ends the process with exit
\* code 1.
C22_MissingKeyExits ==
  /\ [](~app.openai_api_key =>
          /\ ~app.rag
          /\ app.kb_calls = 0
          /\ executed = <<>>
          /\ pc = "idle"
          /\ app.pc \in {"main", "exited"})
  /\ [][~app.openai_api_key /\ app.pc = "main"
          => app'.pc = "exited" /\ app'.exit = "exit1"]_vars

\* the process without the key has exited with 1 before anything was built
C22_Witness ==
  /\ ~app.openai_api_key
  /\ app.pc = "exited"
  /\ app.exit = "exit1"
  /\ ~app.rag
  /\ app.kb_calls = 0

\* C23: retrieve_with_scores raises for no vector store and no search
\* outcome; it returns the empty list without a vector store and when the
\* search raises, and the search result otherwise; a run on a RAGSystem
\* without a vector store gets an empty retrieval and no research failure.
C23_RetrieveNeverRaises ==
  /\ \A vector_store \in BOOLEAN, search_raises \in BOOLEAN,
        found \in SeqsUpTo(Scores, MaxDocs) :
       LET r == retrieve_with_scores(vector_store, search_raises, found)
       IN /\ ~r.raised
          /\ (~vector_store => r.docs = <<>>)
          /\ (vector_store /\ search_raises => r.docs = <<>>)
          /\ (vector_store /\ ~search_raises => r.docs = found)
  /\ (~app.vector_store /\ collab.docs # -1
        => collab.docs = 0 /\ ~InErrors(state, "Research error"))

\* the research stage ran on a RAGSystem without a vector store and went
\* through with an empty retrieval
C23_Witness ==
  /\ ~app.vector_store
  /\ collab.docs = 0
  /\ executed = <<"research">>
  /\ outcomes = <<"ok">>
  /\ state["research_context"].sources = <<>>

\* every gate evaluation so far saw a rejecting QA result made by the
\* critique of the same pass
AllCritiquesRejected ==
  \A k \in DOMAIN decisions :
    decisions[k].qa = "rejected" /\ decisions[k].qa_pass = decisions[k].iteration

\* C24: in a run with max_writing_iterations = N >= 1 in which every
\* critique returned approved = false, the k-th gate evaluation sees
\* iteration_count = k and decides "revise" for k < N and "optimize" (advance)
\* for k = N; there are at most N write executions, and once the loop is left
\* there were exactly N and iteration_count is N.
C24_AllRejected ==
  max_writing_iterations >= 1 /\ AllCritiquesRejected =>
    /\ \A k \in DOMAIN decisions :
         /\ decisions[k].iteration = k
         /\ decisions[k].decision
              = IF k < max_writing_iterations THEN "revise" ELSE "optimize"
    /\ Len(decisions) <= max_writing_iterations
    /\ nWrites <= max_writing_iterations
    /\ (decisions # <<>> /\ pc \in {"optimize", "publish", "END", "returned"}
          => nWrites = max_writing_iterations
             /\ iteration_count = max_writing_iterations)

\* N = 2: revise at count 1, advance at count 2, and the run returned with
\* iteration_count 2
C24_Witness ==
  /\ max_writing_iterations = 2
  /\ pc = "returned"
  /\ Len(decisions) = 2
  /\ AllCritiquesRejected
  /\ decisions[1].decision = "revise" /\ decisions[1].iteration = 1
  /\ decisions[2].decision = "optimize" /\ decisions[2].iteration = 2
  /\ result["iteration_count"] = 2

\* states that agree with st on the QA result's approved and on
\* iteration_count and differ from it in the other fields
GateVariants(st) ==
  {[qa_result |-> [approved |-> st["qa_result"].approved],
    iteration_count |-> st["iteration_count"]],
   Put(st, "errors", <<"Write error">>),
   Put(st, "errors", <<>>),
   Put(st, "current_stage", "initialized"),
   Remove(st, "draft_content"),
   Put(st, "qa_result", [approved |-> st["qa_result"].approved, of_version |-> 0,
                         pass |-> 0])}

\* C25: the step that evaluates the gate leaves the state dict as it is; the
\* decision on a state is the decision on every state that agrees with it on
\* the QA result's approved and on iteration_count, under the same
\* max_writing_iterations; and two evaluations in a run that saw the same
\* two values decided the same.
C25_GateDeterministic ==
  /\ [](Has(state, "qa_result") =>
          \A st2 \in GateVariants(state) : should_revise(st2) = should_revise(state))
  /\ [](\A i, j \in DOMAIN decisions :
          decisions[i].qa = decisions[j].qa /\ decisions[i].iteration = decisions[j].iteration
            => decisions[i].decision = decisions[j].decision)
  /\ [][pc = "gate" => state' = state]_vars

\* the gate has sent a state with recorded errors back to write and left it
\* as it was
C25_Witness ==
  /\ decisions # <<>>
  /\ Last(decisions).decision = "revise"
  /\ pc = "write"
  /\ state["errors"] # <<>>
  /\ Has(state, "draft_content")

\* C26: a critique step that stores a QA result with approved = false
\* leaves the error list as it was and hands over to the gate.
C26_RejectionIsNoError ==
  [][pc = "critique" /\ Last(outcomes') = "ok" /\ ~state'["qa_result"].approved
       => state'["errors"] = state["errors"] /\ pc' = "gate"]_vars

\* every critique of the run rejected its draft, the run published and its
\* error list is empty
C26_Witness ==
  /\ pc = "returned"
  /\ decisions # <<>>
  /\ AllCritiquesRejected
  /\ Has(result, "publish_result")
  /\ ~result["qa_result"].approved
  /\ result["errors"] = <<>>

\* the fact extractions that fail or answer in a wrong shape
MalformedFacts == {"raise", "bad_facts"}

\* C27 as stated: on a non-empty retrieval with a valid confidence, a fact
\* extraction that fails or answers malformed still has the research agent
\* return a context with the sources, no facts and the confidence of the
\* scores, and the research stage stores it without failing.
C27_MalformedFactsRecoverable ==
  pc = "research" =>
    \A found \in SeqsUpTo(Scores, MaxDocs) \ {<<>>}, facts \in MalformedFacts :
      SumSeq(found) >= 0 =>
        LET a == ResearchAgent_research(found, facts)
            r == research_node(state, found, facts)
        IN /\ ~a.raised
           /\ a.ctx = [sources |-> found, key_facts |-> <<>>,
                       confidence_score |-> Min(50, SumSeq(found))]
           /\ ~r.failed /\ ~r.raised
           /\ Has(r.st, "research_context")
           /\ r.st["research_context"] = a.ctx

\* C28: a research step that stores a context with a confidence below
\* fact_confidence_threshold succeeds, appends exactly the 'confidence below
\* threshold' entry to the error list and hands over to outline.
C28_LowConfidenceWarning ==
  [][pc = "research" /\ Has(state', "research_context")
       /\ state'["research_context"].confidence_score < fact_confidence_threshold
       => (/\ Last(outcomes') = "ok"
           /\ state'["errors"]
                = Append(state["errors"], "Research confidence below threshold")
           /\ pc' = "outline")]_vars

\* a run in which every stage succeeded has returned with the low-confidence
\* entry as its only error
C28_Witness ==
  /\ pc = "returned"
  /\ \A i \in DOMAIN outcomes : outcomes[i] = "ok"
  /\ Last(executed) = "publish"
  /\ Has(result, "publish_result")
  /\ result["errors"] = <<"Research confidence below threshold">>

\* C29 as stated: every gate evaluation that saw a QA result saw the one of
\* the critique of the same pass (made at the iteration_count the gate sees).
C29_FreshQA ==
  \A k \in DOMAIN decisions :
    decisions[k].qa # "unset" => decisions[k].qa_pass = decisions[k].iteration

\* C30: with manual approval on, the publish stage applied to an answer
\* other than yes (in any case) makes no call of the publisher, stores
\* publish_result = {success: false, error_message: 'Cancelled by user'} and
\* leaves the error list as it is; a state with that publish_result has no
\* publisher call and no publish error.
C30_CancelledByUser ==
  /\ (pc = "publish" /\ settings.enable_manual_approval /\ Has(state, "final_content")
        => \A approval \in Approvals \ {"EOF"}, http \in HttpOutcomes :
             Lower(approval) # "yes" =>
               LET r == publish_node(state, approval, http)
               IN /\ r.call = <<>>
                  /\ r.st["publish_result"]
                       = [success |-> FALSE, error_message |-> "Cancelled by user"]
                  /\ r.st["errors"] = state["errors"])
  /\ (Has(state, "publish_result")
        /\ state["publish_result"].error_message = "Cancelled by user"
        => /\ settings.enable_manual_approval
           /\ publishCalls = <<>>
           /\ ~state["publish_result"].success
           /\ ~InErrors(state, "Publish error"))

\* the operator declined, the run returned without a publisher call
C30_Witness ==
  /\ pc = "returned"
  /\ settings.enable_manual_approval
  /\ Last(executed) = "publish"
  /\ Has(result, "publish_result")
  /\ result["publish_result"].error_message = "Cancelled by user"
  /\ publishCalls = <<>>

\* ---------------------------------------------------------------- C31..C36
\* C31: with auto_publish off every call of the publisher is made with
\* visibility "draft", whatever publish_mode is; a call with another
\* visibility is made only with auto_publish on, and then with publish_mode.
C31_DraftUnlessAutoPublish ==
  \A i \in DOMAIN publishCalls :
    /\ (~settings.auto_publish => publishCalls[i].visibility = "draft")
    /\ (publishCalls[i].visibility # "draft"
          => settings.auto_publish /\ publishCalls[i].visibility = settings.publish_mode)

\* publish_mode is "publish", auto_publish is off and the publisher was
\* called with "draft"
C31_Witness ==
  /\ ~settings.auto_publish
  /\ settings.publish_mode = "publish"
  /\ Len(publishCalls) = 1
  /\ publishCalls[1].visibility = "draft"

\* C32: once initialize_knowledge_base has returned with at least one
\* document loaded, or with a vector store path that exists on disk, the
\* RAGSystem holds a vector store, so the run_pipeline that follows passes
\* its check of the knowledge base.
C32_KnowledgeBaseInitialized ==
  (app.pc = "run_pipeline" /\ (app.documents >= 1 \/ app.store_exists))
    => app.vector_store

\* C33: run_pipeline called on a RAGSystem without a vector store raises
\* before the BlogPipeline is built: that step ends main with exit code 1,
\* builds no pipeline, starts no stage, calls no publisher and leaves no
\* result to save; and it stays so afterwards.
C33_RunPipelineRequiresKnowledgeBase ==
  /\ [][(app.pc = "run_pipeline" /\ ~app.vector_store)
          => (/\ app'.pc = "exited"
              /\ app'.exit = "exit1"
              /\ ~app'.pipeline
              /\ UNCHANGED <<state, pc, executed, publishCalls, result>>)]_vars
  /\ []((app.pc = "exited" /\ app.kb_calls = 1 /\ ~app.vector_store)
          => (/\ ~app.pipeline
              /\ pc = "idle"
              /\ executed = <<>>
              /\ publishCalls = <<>>
              /\ result = NoResult))

\* run_pipeline was called after a knowledge base initialization that
\* found no documents, and main has exited with 1
C33_Witness ==
  /\ app.pc = "exited"
  /\ app.exit = "exit1"
  /\ app.kb_calls = 1
  /\ ~app.vector_store
  /\ ~app.pipeline
  /\ executed = <<>>

\* C34 as stated: TistoryPublisher.publish answers every outcome of the
\* request with a publish result; without credentials the result is a
\* failure and no request is sent; the result is a success only when the
\* request succeeded and the API reported status "200"; every other outcome
\* is a failure that carries an error message.
C34_TistoryPublishResult ==
  (pc = "publish" /\ ~settings.dry_run /\ Has(state, "final_content"))
    => \A http \in HttpOutcomes, visibility \in PublishModes :
         LET a == TistoryPublisher_publish(state["final_content"], visibility, http)
         IN /\ a.result.success \in BOOLEAN
            /\ (http = "no_creds" => ~a.result.success /\ ~a.sent)
            /\ (a.result.success <=> http = "ok200")
            /\ (~a.result.success => a.result.error_message \notin {None, ""})

\* the artifact fields of VideoState: long-form, then short-form
VideoArtifactFields ==
  {"script", "voice_path", "image_paths", "video_path", "title", "description",
   "tags", "upload_status",
   "short_script", "short_voice_path", "short_image_paths", "short_video_path",
   "short_title", "short_upload_status"}

\* the topic the router reads from the video state, lower-cased
RouterTopic == str_lower(IF Has(video.state, "topic") THEN video.state["topic"] ELSE <<>>)

\* C35: content_type_router yields one of short, long and both on every
\* state: both when the lower-cased topic contains "both" (a short-form
\* keyword beside it changes nothing), otherwise short when it contains
\* "trend", "promo" or "short", otherwise long; the state it runs on, coming
\* from topic_planner, has a topic that is not empty; and the content type
\* in the state afterwards is the one the topic decides.
C35_ContentTypeRouter ==
  LET has_both == str_in(<<"b", "o", "t", "h">>, RouterTopic)
      has_short == \/ str_in(<<"t", "r", "e", "n", "d">>, RouterTopic)
                   \/ str_in(<<"p", "r", "o", "m", "o">>, RouterTopic)
                   \/ str_in(<<"s", "h", "o", "r", "t">>, RouterTopic)
      expected == IF has_both THEN "both" ELSE IF has_short THEN "short" ELSE "long"
  IN /\ (video.pc \in {"topic_planner", "content_type_router"})
          => LET c_type == content_type_router(video.state)["content_type"]
             IN /\ c_type \in {"short", "long", "both"}
                /\ c_type = expected
                /\ DOMAIN content_type_router(video.state) = {"content_type"}
     /\ (video.pc = "content_type_router")
          => /\ Has(video.state, "topic")
             /\ video.state["topic"] # <<>>
     /\ (video.pc \in {"branches", "END"})
          => /\ video.state["content_type"] = expected
             /\ (video.state["topic"] = AITrends2024Both
                   => video.state["content_type"] = "both")
             /\ (video.state["topic"] = <<"P", "R", "O", "M", "O", " ">>
                   => video.state["content_type"] = "short")
             /\ (video.state["topic"] \in {TheHistoryOfComputing, DefaultTopic}
                   => video.state["content_type"] = "long")

\* main's second example has been routed to both branches, its topic holding
\* the short-form keyword "trend" as well
C35_Witness ==
  /\ video.pc = "branches"
  /\ video.state["topic"] = AITrends2024Both
  /\ str_in(<<"t", "r", "e", "n", "d">>, RouterTopic)
  /\ video.state["content_type"] = "both"

\* C36 as stated: in both mode, whatever the order the nodes of the two
\* branches run in, no artifact field of the video state is written by a
\* node of the long-form branch and by a node of the short-form branch.
C36_DisjointArtifactFields ==
  \A f \in VideoArtifactFields :
    ~(<<"long", f>> \in video.writers /\ <<"short", f>> \in video.writers)

====
